---- MODULE Spec2Model ----
(***************************************************************************)
(* One execution of proxtop's setup.py: the import of distutils' setup(),  *)
(* the with-block that reads README.rst into long_description, the call of *)
(* setup() with the packaging keywords, and what the packaging tool does   *)
(* with those keywords (create the distribution, install scripts, install  *)
(* data files, write the metadata).                                        *)
(***************************************************************************)
EXTENDS Naturals, Sequences, FiniteSets

VARIABLES
    env,              \* the interpreter: py, distutils importable, setuptools loaded
    argv,             \* the command given to setup.py on the command line
    files,            \* the working directory: path -> [kind, data]
    edits,            \* number of outside writes made to README.rst so far
    pc,               \* the statement of setup.py (or step of setup()) to run next
    handle,           \* the file object bound by the with statement
    snapshot,         \* the bytes read() fetched from README.rst
    long_description, \* the module-level name assigned on line 5
    exc,              \* the exception raised in this execution
    accesses,         \* the resources the descriptor's own statements touched
    kwargs,           \* the calls of setup() made so far, with their keywords
    dist,             \* the Distribution the packaging tool created
    installed,        \* the files the packaging tool installed: <<dir, name>>
    metadata          \* the metadata the packaging tool wrote

vars == <<env, argv, files, edits, pc, handle, snapshot, long_description, exc,
          accesses, kwargs, dist, installed, metadata>>

\* ------------------------------------------------------------------ bounds

MaxLen == 2
MaxEdits == 1

\* ------------------------------------------------------------- environment

\* The bytes a README.rst is made of: an ordinary character, the two line
\* terminator bytes, and a byte the interpreter's text encoding cannot decode.
Bytes == {"a", "CR", "LF", "BAD"}

RECURSIVE SeqsUpTo(_)
SeqsUpTo(n) ==
    IF n = 0 THEN {<<>>}
    ELSE LET shorter == SeqsUpTo(n - 1)
         IN  shorter \cup {Append(s, b) : s \in {t \in shorter : Len(t) = n - 1}, b \in Bytes}

Readme == "README.rst"
License == "LICENSE.txt"

Range(s) == {s[i] : i \in 1..Len(s)}

\* ------------------------------------------------- the keywords of setup()

Name == "proxtop"

Version == "0.3.2"

\* Mutant: a second script is declared.
ScriptsWithAgent == <<"proxtop", "proxtop-agent">>

Scripts == <<"proxtop">>

DocDir == "share/doc/proxtop"

\* Mutant: README.rst goes to a directory of its own.
DataFilesSplit == << <<DocDir, <<License>> >>, <<"share/proxtop", <<Readme>> >> >>

DataFiles == << <<DocDir, <<License, Readme>> >> >>

\* Mutant: no platform restriction.
PlatformsAny == <<"any">>

Platforms == <<"linux">>

\* Each classifier is the sequence of its " :: "-separated parts.
Classifiers ==
    << <<"Development Status", "4 - Beta">>,
       <<"Intended Audience", "System Administrators">>,
       <<"License", "OSI Approved", "GNU General Public License v3 or later (GPLv3+)">>,
       <<"Operating System", "POSIX", "Linux">>,
       <<"Programming Language", "Python", "2.7">>,
       <<"Programming Language", "Python", "3">>,
       <<"Topic", "System", "Clustering">>,
       <<"Topic", "System", "Monitoring">> >>

InstallRequires == <<"proxmoxer>=0.1.7", "requests>=2.2.0">>

Kwargs(ld) ==
    [name             |-> Name,
     version          |-> Version,
     scripts          |-> Scripts,
     data_files       |-> DataFiles,
     description      |-> "Proxmox resource monitor",
     long_description |-> ld,
     author           |-> "Walter Doekes, OSSO B.V.",
     author_email     |-> "wjdoekes+proxtop@osso.nl",
     url              |-> "https://github.com/ossobv/proxtop",
     license          |-> "GPLv3+",
     platforms        |-> Platforms,
     classifiers      |-> Classifiers,
     install_requires |-> InstallRequires]

\* ------------------------------------------------------ the with-block

\* Mutant: the file is opened for writing.
OpenModeWrite == "w"

\* open('README.rst') names no mode: the default, read-only text mode.
OpenMode == "r"

\* The value of a name that was never assigned.
Unset == <<"UNSET">>

NoHandle == [state |-> "none", mode |-> "none"]

\* Mutant: an unreadable file opens all the same.
CanOpenUnreadable(f, mode) == f.kind # "missing"

CanOpen(f, mode) ==
    IF mode = "r" THEN f.kind = "file" ELSE f.kind # "noperm"

\* What open() does to the directory: nothing when reading, create or
\* truncate when writing.
AfterOpen(fs, path, mode) ==
    IF mode = "r" THEN fs
    ELSE [fs EXCEPT ![path] = [kind |-> "file", data |-> <<>>]]

Decodable(data) == "BAD" \notin Range(data)

\* Text mode on Python 3 reads with universal newlines: CR LF and a lone CR
\* both arrive as LF.
RECURSIVE Translate(_)
Translate(s) ==
    IF s = <<>> THEN <<>>
    ELSE IF Head(s) = "CR"
         THEN <<"LF">> \o Translate(IF Len(s) >= 2 /\ s[2] = "LF"
                                    THEN Tail(Tail(s)) ELSE Tail(s))
         ELSE <<Head(s)>> \o Translate(Tail(s))

\* Mutant: read(1) instead of read().
ReadFirst(py, data) ==
    LET text == IF py = "py2" THEN data ELSE Translate(data)
    IN  IF text = <<>> THEN <<>> ELSE <<Head(text)>>

\* file.read(): the whole file, as a byte string on Python 2 and as decoded
\* text on Python 3.
ReadAll(py, data) ==
    IF py = "py2" THEN data ELSE Translate(data)

\* Mutant: the file is opened without a with statement and never closed.
WithExitLeavesOpen(h) == h

\* Leaving the with-block calls the file's __exit__, which closes it.
WithExit(h) == [h EXCEPT !.state = "closed"]

\* Mutant: a try/except around the with-block swallows a failed open or read.
UncaughtSwallowsReadme(e) ==
    IF e \in {"IOError", "UnicodeDecodeError"} THEN "call_setup" ELSE "raised"

\* No statement of setup.py catches an exception: it ends the script.
Uncaught(e) == "raised"

Access(res, name, op) == [res |-> res, name |-> name, op |-> op]

\* ------------------------------------------------------- the packaging tool

\* The keywords distutils' Distribution knows; any other is dropped with an
\* "Unknown distribution option" warning. setuptools, when it has been loaded
\* into the interpreter, replaces Distribution with one that also knows
\* install_requires.
DistutilsOptions ==
    {"name", "version", "scripts", "data_files", "description",
     "long_description", "author", "author_email", "url", "license",
     "platforms", "classifiers"}

KnownOptions(setuptools) ==
    IF setuptools THEN DistutilsOptions \cup {"install_requires"}
    ELSE DistutilsOptions

CreateDist(kw, setuptools) ==
    [k \in (DOMAIN kw) \cap KnownOptions(setuptools) |-> kw[k]]

Exists(path) == path \in DOMAIN files /\ files[path].kind = "file"

\* -------------------------------------------------------------------- Init

FileStates ==
    {[kind |-> "missing", data |-> <<>>], [kind |-> "noperm", data |-> <<>>]}
    \cup {[kind |-> "file", data |-> d] : d \in SeqsUpTo(MaxLen)}

PlainStates ==
    {[kind |-> "missing", data |-> <<>>], [kind |-> "file", data |-> <<>>]}

Init ==
    /\ env \in {e \in [py : {"py2", "py3"}, distutils : BOOLEAN, setuptools : BOOLEAN] :
                  e.py = "py2" => e.distutils}
    /\ argv \in {"install", "build"}
    /\ files \in {f \in [{Readme, License, "proxtop"} -> FileStates] :
                    /\ f[License] \in PlainStates
                    /\ f["proxtop"] \in PlainStates}
    /\ edits = 0
    /\ pc = "import"
    /\ handle = NoHandle
    /\ snapshot = <<>>
    /\ long_description = Unset
    /\ exc = "none"
    /\ accesses = <<>>
    /\ kwargs = <<>>
    /\ dist = <<>>
    /\ installed = {}
    /\ metadata = <<>>

\* ----------------------------------------------------------------- actions

\* line 2: from distutils.core import setup
Import ==
    /\ pc = "import"
    /\ accesses' = Append(accesses, Access("module", "distutils.core", "import"))
    /\ IF env.distutils
       THEN /\ pc' = "open"
            /\ UNCHANGED exc
       ELSE /\ exc' = "ImportError"
            /\ pc' = Uncaught("ImportError")
    /\ UNCHANGED <<env, argv, files, edits, handle, snapshot, long_description,
                   kwargs, dist, installed, metadata>>

\* line 4: with open('README.rst') as file
Open ==
    /\ pc = "open"
    /\ accesses' = Append(accesses, Access("file", Readme, OpenMode))
    /\ IF CanOpen(files[Readme], OpenMode)
       THEN /\ handle' = [state |-> "open", mode |-> OpenMode]
            /\ files' = AfterOpen(files, Readme, OpenMode)
            /\ pc' = "read"
            /\ UNCHANGED exc
       ELSE /\ exc' = "IOError"
            /\ pc' = Uncaught("IOError")
            /\ UNCHANGED <<handle, files>>
    /\ UNCHANGED <<env, argv, edits, snapshot, long_description, kwargs, dist,
                   installed, metadata>>

\* line 5: long_description = file.read()
Read ==
    /\ pc = "read"
    /\ accesses' = Append(accesses, Access("file", Readme, "read"))
    /\ pc' = "exit"
    /\ IF handle.mode # "r"
       THEN /\ exc' = "IOError"
            /\ UNCHANGED <<snapshot, long_description>>
       ELSE /\ snapshot' = files[Readme].data
            /\ IF env.py = "py3" /\ ~Decodable(files[Readme].data)
               THEN /\ exc' = "UnicodeDecodeError"
                    /\ UNCHANGED long_description
               ELSE /\ long_description' = ReadAll(env.py, files[Readme].data)
                    /\ UNCHANGED exc
    /\ UNCHANGED <<env, argv, files, edits, handle, kwargs, dist, installed, metadata>>

\* lines 4-5: the end of the with-block, reached normally or by an exception
Exit ==
    /\ pc = "exit"
    /\ handle' = WithExit(handle)
    /\ accesses' = Append(accesses, Access("file", Readme, "close"))
    /\ pc' = IF exc = "none" THEN "call_setup" ELSE Uncaught(exc)
    /\ UNCHANGED <<env, argv, files, edits, snapshot, long_description, exc,
                   kwargs, dist, installed, metadata>>

\* lines 8-35: setup(name=..., ..., install_requires=[...])
SetupCall ==
    /\ pc = "call_setup"
    /\ kwargs' = Append(kwargs, Kwargs(long_description))
    /\ pc' = "create_dist"
    /\ UNCHANGED <<env, argv, files, edits, handle, snapshot, long_description,
                   exc, accesses, dist, installed, metadata>>

\* setup(): build the Distribution from the keywords and parse the command line
ToolCreateDist ==
    /\ pc = "create_dist"
    /\ dist' = <<CreateDist(kwargs[Len(kwargs)], env.setuptools)>>
    /\ pc' = IF argv = "install" THEN "install_scripts" ELSE "done"
    /\ UNCHANGED <<env, argv, files, edits, handle, snapshot, long_description,
                   exc, accesses, kwargs, installed, metadata>>

\* setup(): the install_scripts command
ToolInstallScripts ==
    /\ pc = "install_scripts"
    /\ IF \A s \in Range(dist[1].scripts) : Exists(s)
       THEN /\ installed' = installed \cup {<<"bin", s>> : s \in Range(dist[1].scripts)}
            /\ pc' = "install_data"
            /\ UNCHANGED exc
       ELSE /\ exc' = "DistutilsError"
            /\ pc' = "raised"
            /\ UNCHANGED installed
    /\ UNCHANGED <<env, argv, files, edits, handle, snapshot, long_description,
                   accesses, kwargs, dist, metadata>>

\* setup(): the install_data command
ToolInstallData ==
    /\ pc = "install_data"
    /\ LET entries == Range(dist[1].data_files)
       IN  IF \A e \in entries : \A f \in Range(e[2]) : Exists(f)
           THEN /\ installed' = installed \cup
                       UNION {{<<e[1], f>> : f \in Range(e[2])} : e \in entries}
                /\ pc' = "install_egg_info"
                /\ UNCHANGED exc
           ELSE /\ exc' = "DistutilsError"
                /\ pc' = "raised"
                /\ UNCHANGED installed
    /\ UNCHANGED <<env, argv, files, edits, handle, snapshot, long_description,
                   accesses, kwargs, dist, metadata>>

\* setup(): the install_egg_info command writes the distribution's metadata
ToolInstallEggInfo ==
    /\ pc = "install_egg_info"
    /\ metadata' = <<[name        |-> dist[1].name,
                      version     |-> dist[1].version,
                      description |-> dist[1].long_description,
                      platforms   |-> dist[1].platforms,
                      classifiers |-> dist[1].classifiers,
                      requires    |-> IF "install_requires" \in DOMAIN dist[1]
                                      THEN dist[1].install_requires ELSE <<>>]>>
    /\ pc' = "done"
    /\ UNCHANGED <<env, argv, files, edits, handle, snapshot, long_description,
                   exc, accesses, kwargs, dist, installed>>

\* Another process appends a byte to README.rst while setup.py runs.
EditReadme ==
    /\ pc \notin {"done", "raised"}
    /\ edits < MaxEdits
    /\ files[Readme].kind = "file"
    /\ Len(files[Readme].data) < MaxLen
    /\ \E b \in Bytes :
         files' = [files EXCEPT ![Readme].data = Append(@, b)]
    /\ edits' = edits + 1
    /\ UNCHANGED <<env, argv, pc, handle, snapshot, long_description, exc,
                   accesses, kwargs, dist, installed, metadata>>

Next ==
    \/ Import
    \/ Open
    \/ Read
    \/ Exit
    \/ SetupCall
    \/ ToolCreateDist
    \/ ToolInstallScripts
    \/ ToolInstallData
    \/ ToolInstallEggInfo
    \/ EditReadme

Spec == Init /\ [][Next]_vars

\* ------------------------------------------------------------------ claims

OwnPcs == {"import", "open", "read", "exit", "call_setup"}

OwnExceptions == {"ImportError", "IOError", "UnicodeDecodeError"}

Calls == Range(kwargs)

Count(s, b) == Cardinality({i \in 1..Len(s) : s[i] = b})

CrLfPairs(s) == Cardinality({i \in 1..(Len(s) - 1) : s[i] = "CR" /\ s[i + 1] = "LF"})

NotNewline(b) == b \notin {"CR", "LF"}

\* C1: every call of setup() declares exactly one script, named as the
\* distribution is, "proxtop"; nothing else is ever installed as a script.
C1_OneScriptProxtop ==
    /\ \A k \in Calls : k.name = "proxtop" /\ k.scripts = <<k.name>>
    /\ \A p \in installed : p[1] = "bin" => p[2] = "proxtop"

C1_Witness == <<"bin", "proxtop">> \in installed

\* C2: setup() is passed exactly the two requirements proxmoxer>=0.1.7 and
\* requests>=2.2.0, and the metadata of an installation made through the
\* descriptor carries both.
C2_RequirementsCarried ==
    /\ \A k \in Calls : k.install_requires = <<"proxmoxer>=0.1.7", "requests>=2.2.0">>
    /\ metadata # <<>> =>
         Range(metadata[1].requires) = {"proxmoxer>=0.1.7", "requests>=2.2.0"}

\* C3: every call of setup() declares exactly the two data files LICENSE.txt
\* and README.rst, both under share/doc/proxtop, and no data file is installed
\* anywhere else.
C3_TwoDataFilesOneDir ==
    /\ \A k \in Calls :
         /\ Len(k.data_files) = 1
         /\ k.data_files[1][1] = "share/doc/proxtop"
         /\ Len(k.data_files[1][2]) = 2
         /\ Range(k.data_files[1][2]) = {"LICENSE.txt", "README.rst"}
    /\ \A p \in installed :
         p[1] # "bin" => p[1] = "share/doc/proxtop" /\ p[2] \in {"LICENSE.txt", "README.rst"}

C3_Witness ==
    {<<"share/doc/proxtop", "LICENSE.txt">>, <<"share/doc/proxtop", "README.rst">>}
        \subseteq installed

\* C4 as stated: whatever the working directory holds, the descriptor's own
\* statements never raise.
C4_OwnCodeNeverRaises == exc \notin OwnExceptions

\* C4 amended: the descriptor's own statements raise only when distutils.core
\* cannot be imported, when README.rst cannot be opened for reading, or when
\* Python 3 cannot decode what it read; setup() is reached only when none of
\* the three is the case, and the packaging tool fails only after that.
C4_OwnCodeRaisesOnlyOnImportOrReadme ==
    /\ exc = "ImportError" => ~env.distutils
    /\ exc = "IOError" => env.distutils /\ files[Readme].kind # "file"
    /\ exc = "UnicodeDecodeError" =>
         /\ env.distutils /\ files[Readme].kind = "file"
         /\ env.py = "py3" /\ "BAD" \in Range(snapshot)
    /\ kwargs # <<>> =>
         /\ env.distutils /\ files[Readme].kind = "file"
         /\ env.py = "py3" => "BAD" \notin Range(snapshot)
    /\ exc = "DistutilsError" => kwargs # <<>>

C4_Witness == exc = "IOError" /\ pc = "raised" /\ files[Readme].kind = "missing"

\* C6: the descriptor's own statements touch no command line and no
\* environment variable; apart from importing the module distutils.core,
\* the only file they touch is README.rst, which they
\* open for reading, read and close; and no statement of the descriptor
\* changes any file.
C6_OnlyReadsReadme ==
    /\ [](\A i \in 1..Len(accesses) :
            /\ accesses[i].res \in {"module", "file"}
            /\ accesses[i].res = "module" => accesses[i].name = "distutils.core"
            /\ accesses[i].res = "file" =>
                 accesses[i].name = "README.rst" /\ accesses[i].op \in {"r", "read", "close"})
    /\ [][(pc \in OwnPcs /\ pc' # pc) => files' = files]_vars

C6_Witness ==
    /\ pc = "call_setup"
    /\ Len(accesses) = 4
    /\ accesses[3] = Access("file", "README.rst", "read")

\* C7: setup() is called only after README.rst was opened and read to the
\* end; when the open or the read fails, setup() is never called, nothing is
\* installed and no metadata is written.
C7_ReadBeforeSetup ==
    /\ \A k \in Calls :
         /\ \E i, j \in 1..Len(accesses) :
              /\ i < j
              /\ accesses[i] = Access("file", "README.rst", "r")
              /\ accesses[j] = Access("file", "README.rst", "read")
         /\ k.long_description # Unset
         /\ Len(k.long_description) =
                IF env.py = "py2" THEN Len(snapshot)
                ELSE Len(snapshot) - CrLfPairs(snapshot)
    /\ exc \in {"IOError", "UnicodeDecodeError"} =>
         kwargs = <<>> /\ dist = <<>> /\ installed = {} /\ metadata = <<>>

C7_Witness ==
    /\ exc = "IOError" /\ pc = "raised"
    /\ files[Readme].kind = "noperm"
    /\ kwargs = <<>>

\* C8: the handle opened on README.rst is closed on both ways out of the
\* with-block, and setup() never runs while it is open.
C8_HandleClosed ==
    /\ pc \notin {"import", "open", "read", "exit"} => handle.state # "open"
    /\ kwargs # <<>> => handle.state = "closed"
    /\ exc = "UnicodeDecodeError" /\ pc = "raised" => handle.state = "closed"

C8_Witness ==
    /\ exc = "UnicodeDecodeError" /\ pc = "raised"
    /\ handle.state = "closed"

\* C9 as stated: the long_description setup() receives is exactly the content
\* of README.rst at the one read, untransformed, and README.rst is a declared
\* data file.
C9_LongDescriptionIsContent ==
    \A k \in Calls :
        /\ k.long_description = snapshot
        /\ \E e \in Range(k.data_files) : "README.rst" \in Range(e[2])

\* C9 amended: the long_description setup() receives is the complete content
\* of README.rst at the one read, exactly so on Python 2 or when the content
\* holds no carriage return; on Python 3 every CR LF pair and every lone CR
\* arrives as one LF and every other character arrives unchanged and in
\* order. README.rst is a declared data file.
C9_LongDescriptionIsContentUpToNewlines ==
    \A k \in Calls :
        /\ (env.py = "py2" \/ "CR" \notin Range(snapshot)) =>
               k.long_description = snapshot
        /\ env.py = "py3" =>
               /\ "CR" \notin Range(k.long_description)
               /\ SelectSeq(k.long_description, NotNewline) = SelectSeq(snapshot, NotNewline)
               /\ Count(k.long_description, "LF") =
                      Count(snapshot, "CR") + Count(snapshot, "LF") - CrLfPairs(snapshot)
        /\ \E e \in Range(k.data_files) : "README.rst" \in Range(e[2])

C9_Witness ==
    /\ kwargs # <<>>
    /\ env.py = "py3"
    /\ "CR" \in Range(snapshot)
    /\ files[Readme].data # snapshot

\* C5: every call of setup() restricts the platforms to linux, names
\* POSIX :: Linux as its only operating system and names Python 2.7 and
\* Python 3, and no other version, as its languages; the metadata written
\* carries the same.
C5_LinuxPython27And3 ==
    /\ \A k \in Calls :
         /\ k.platforms = <<"linux">>
         /\ {c \in Range(k.classifiers) : c[1] = "Operating System"} =
                {<<"Operating System", "POSIX", "Linux">>}
         /\ {c \in Range(k.classifiers) : c[1] = "Programming Language"} =
                {<<"Programming Language", "Python", "2.7">>,
                 <<"Programming Language", "Python", "3">>}
    /\ metadata # <<>> =>
         /\ metadata[1].platforms = <<"linux">>
         /\ <<"Operating System", "POSIX", "Linux">> \in Range(metadata[1].classifiers)

C5_Witness == metadata # <<>> /\ metadata[1].platforms = <<"linux">>

====
